---- MODULE Spec2Model ----
(***************************************************************************)
(* Model of app.py: a Streamlit script that is executed top to bottom on   *)
(* every rerun.  A rerun is requested by a widget change (or by the user   *)
(* asking for one); the script then runs as a whole: tab 1 (orbital        *)
(* outputs and the altitude sweep) followed by tab 2 (threat table,        *)
(* segment / threshold filters, heatmap aggregation, sorted high-risk      *)
(* table, coverage matrix and its pivot).                                  *)
(*                                                                         *)
(* Units.  Python floats are modelled in fixed point and every operation   *)
(* rounds down: periods in seconds, velocities in m/s, Period_min in       *)
(* 1/1000 minute, Velocity_km_s in 1/1000 km/s.  Altitudes are whole       *)
(* kilometres, as the sliders deliver them.                                *)
(*                                                                         *)
(* numpy's global generator is library code.  It is modelled as a          *)
(* full-period linear congruential generator on RngBits bits whose         *)
(* multiplier and increment are fixed when the process starts and are      *)
(* left open, so that no result rests on one particular stream.  Bounded   *)
(* draws use numpy's masked rejection sampling.                            *)
(***************************************************************************)
EXTENDS Integers, Sequences, FiniteSets, TLC

VARIABLES
    pc,              \* "rerun": a script run is pending; "idle": the run is complete
    rng,             \* state of the shared np.random generator (survives reruns)
    gen,             \* the generator's multiplier and increment
    altitude_km,     \* widgets
    sweep_min,
    sweep_max,
    sweep_step,
    segment,
    risk_threshold,
    T,               \* locals of the current script run
    v,
    altitudes,
    df_orbit_stats,
    df_threats,
    df_seg,
    high_risk,
    heatmap_data,
    shown,           \* the frame handed to st.dataframe (high_risk.sort_values)
    df_mitre,
    pivot,
    hist_threats,    \* df_threats of the most recent completed runs, oldest first
    hist_mitre       \* df_mitre of the most recent completed runs, oldest first

widgets == <<altitude_km, sweep_min, sweep_max, sweep_step, segment, risk_threshold>>
locals == <<T, v, altitudes, df_orbit_stats, df_threats, df_seg, high_risk,
            heatmap_data, shown, df_mitre, pivot>>
vars == <<pc, rng, gen, widgets, locals, hist_threats, hist_mitre>>

----------------------------------------------------------------------------
(* Bounds of the model *)

\* width of the modelled generator state
RngBits == 6
\* multipliers 4k+1, k in 0..MaxMulIdx
MaxMulIdx == 3
\* increments 2k+1, k in 0..MaxIncIdx
MaxIncIdx == 3
\* number of completed runs whose tables are remembered for comparison
MaxRuns == 2
\* how many of the tie positions of the sorted frame may come out exchanged
MaxTieSwap == 2
\* altitudes AltStep * k, k in 0..MaxAltIdx, given to the orbital functions
MaxAltIdx == 820
\* sweep slider positions explored: index 0..MaxSweepIdx
MaxSweepIdx == 4

----------------------------------------------------------------------------
(* Helpers *)

Range(s) == {s[i] : i \in 1..Len(s)}

RECURSIVE SumSeq(_)
SumSeq(s) == IF s = << >> THEN 0 ELSE Head(s) + SumSeq(Tail(s))

\* floor(x * y / d) without forming x * y (needs d * y < 2^31)
MulDiv(x, y, d) == (x \div d) * y + ((x % d) * y) \div d

\* floor(sqrt(n)) by bisection; lo * lo <= n < hi * hi
RECURSIVE isqrt_search(_, _, _)
isqrt_search(n, lo, hi) ==
    IF hi - lo <= 1 THEN lo
    ELSE LET mid == (lo + hi) \div 2
         IN IF mid * mid <= n THEN isqrt_search(n, mid, hi)
                              ELSE isqrt_search(n, lo, mid)

sqrt(n) == isqrt_search(n, 0, 46341)

----------------------------------------------------------------------------
(* Orbital mechanics, app.py lines 12-21 *)

\* [km^3/s^2], 3.986004418e14 m^3/s^2 rounded down
MU_EARTH == 398600
\* [m]
R_EARTH == 6371000
\* 2 * np.pi in 1/1000
TWO_PI == 6283

kepler_period(semi_major_axis_m) ==
    LET a == semi_major_axis_m \div 1000
        cube_over_mu == MulDiv(MulDiv(a, a, 100), a, MU_EARTH \div 100)
    IN (TWO_PI * sqrt(cube_over_mu)) \div 1000

orbital_velocity_inverted(semi_major_axis_m) ==
    sqrt(MulDiv(semi_major_axis_m \div 1000, 10000, MU_EARTH \div 100))

orbital_velocity(semi_major_axis_m) ==
    LET a == semi_major_axis_m \div 1000
    IN sqrt(MulDiv(MU_EARTH * 1000, 1000, a))

\* np.arange(start, stop, step) for integers, step > 0
arange(start, stop, step) ==
    LET n == IF stop > start THEN (stop - start + step - 1) \div step ELSE 0
    IN [k \in 1..n |-> start + (k - 1) * step]

\* lines 245-258
sweep_table(alts) ==
    [k \in 1..Len(alts) |->
        LET a_sweep == R_EARTH + alts[k] * 1000
        IN [Altitude_km |-> alts[k],
            Period_min |-> (kepler_period(a_sweep) * 1000) \div 60,
            Velocity_km_s |-> orbital_velocity(a_sweep)]]

----------------------------------------------------------------------------
(* The shared generator behind np.random, app.py lines 41, 62, 63, 88 *)

RngMod == 2 ^ RngBits

Multipliers == {4 * k + 1 : k \in 0..MaxMulIdx}
Increments == {2 * k + 1 : k \in 0..MaxIncIdx}

\* one step of the generator
rk_next(st) == (gen.mul * st + gen.inc) % RngMod

\* number of bits of the smallest all-ones mask covering max
RECURSIVE mask_bits(_)
mask_bits(max) == IF max = 0 THEN 0 ELSE 1 + mask_bits(max \div 2)

\* a value in 0..max: draw mask_bits(max) bits (the generator's high bits)
\* and reject the draws above max; max = 0 consumes no draw
RECURSIVE rk_interval(_, _)
rk_interval(st, max) ==
    IF max = 0 THEN [val |-> 0, st |-> st]
    ELSE LET st1 == rk_next(st)
             val == st1 \div (2 ^ (RngBits - mask_bits(max)))
         IN IF val <= max THEN [val |-> val, st |-> st1]
                          ELSE rk_interval(st1, max)

\* np.random.seed(s): the state depends on s alone
seed_ignored(s) == rng

seed(s) == s % RngMod

\* np.random.randint(low, high): high is exclusive
randint_inclusive(st, low, high) ==
    LET d == rk_interval(st, high - low)
    IN [val |-> low + d.val, st |-> d.st]

randint(st, low, high) ==
    LET d == rk_interval(st, high - low - 1)
    IN [val |-> low + d.val, st |-> d.st]

\* np.random.choice(a) for a list a
choice(st, a) ==
    LET d == rk_interval(st, Len(a) - 1)
    IN [val |-> a[d.val + 1], st |-> d.st]

----------------------------------------------------------------------------
(* Threat taxonomy generator, app.py lines 40-67 *)

threats == <<
    "GNSS Spoofing",
    "Uplink Jamming",
    "Downlink Jamming",
    "Ground Station Intrusion",
    "Supply Chain Malware",
    "Sat Bus Exploit",
    "Command Injection",
    "Data Exfiltration",
    "Ransomware in Ground IT",
    "Insider Threat" >>

cia_dim == << "Confidentiality", "Integrity", "Availability" >>

\* the nested loops of lines 57-64, from pair number k on; returns the rows
\* appended and the generator state left behind
RECURSIVE threat_rows(_, _)
threat_rows(k, st) ==
    IF k > Len(threats) * Len(cia_dim) THEN [rows |-> << >>, st |-> st]
    ELSE LET t == threats[(k - 1) \div Len(cia_dim) + 1]
             dim == cia_dim[((k - 1) % Len(cia_dim)) + 1]
             l == randint(st, 1, 5)
             i == randint(l.st, 1, 5)
             rest == threat_rows(k + 1, i.st)
         IN [rows |-> << [Threat |-> t, CIA |-> dim,
                          Likelihood |-> l.val, Impact |-> i.val] >> \o rest.rows,
             st |-> rest.st]

\* df["RiskScore"] = df["Likelihood"] * df["Impact"], line 66
with_risk_score(rows) ==
    [k \in 1..Len(rows) |->
        [Threat |-> rows[k].Threat, CIA |-> rows[k].CIA,
         Likelihood |-> rows[k].Likelihood, Impact |-> rows[k].Impact,
         RiskScore |-> rows[k].Likelihood * rows[k].Impact]]

generate_mock_sat_threat_data_unseeded(st) ==
    LET g == threat_rows(1, st)
    IN [df |-> with_risk_score(g.rows), st |-> g.st]

\* st is the generator state at the call; returns the frame and the state left
generate_mock_sat_threat_data(st) ==
    LET g == threat_rows(1, seed(42))
    IN [df |-> with_risk_score(g.rows), st |-> g.st]

----------------------------------------------------------------------------
(* Segment and threshold filters, app.py lines 315-349 *)

Segments == {"All", "Space Segment", "Ground Segment", "Link Segment"}

isin_list_overlapping(seg) ==
    CASE seg = "Space Segment" ->
            {"Sat Bus Exploit", "Command Injection", "Data Exfiltration",
             "Supply Chain Malware"}
      [] seg = "Ground Segment" ->
            {"Ground Station Intrusion", "Ransomware in Ground IT", "Insider Threat"}
      [] seg = "Link Segment" ->
            {"GNSS Spoofing", "Uplink Jamming", "Downlink Jamming"}
      [] OTHER -> {}

\* the name lists given to isin
isin_list(seg) ==
    CASE seg = "Space Segment" ->
            {"Sat Bus Exploit", "Command Injection", "Data Exfiltration"}
      [] seg = "Ground Segment" ->
            {"Ground Station Intrusion", "Ransomware in Ground IT", "Insider Threat"}
      [] seg = "Link Segment" ->
            {"GNSS Spoofing", "Uplink Jamming", "Downlink Jamming"}
      [] OTHER -> {}

\* lines 331-347
segment_filter(df, seg) ==
    IF seg \in {"Space Segment", "Ground Segment", "Link Segment"}
    THEN LET mask(r) == r.Threat \in isin_list(seg) IN SelectSeq(df, mask)
    ELSE df

high_risk_filter_strict(df, threshold) ==
    LET keep(r) == r.RiskScore > threshold IN SelectSeq(df, keep)

\* line 349
high_risk_filter(df, threshold) ==
    LET keep(r) == r.RiskScore >= threshold IN SelectSeq(df, keep)

----------------------------------------------------------------------------
(* Heatmap aggregation, app.py lines 357-361 *)

key_le(a, b) == a[1] < b[1] \/ (a[1] = b[1] /\ a[2] <= b[2])

\* the group keys in sorted order (groupby sorts its keys)
RECURSIVE sorted_keys(_)
sorted_keys(S) ==
    IF S = {} THEN << >>
    ELSE LET m == CHOOSE k \in S : \A o \in S : key_le(k, o)
         IN << m >> \o sorted_keys(S \ {m})

group_size(df, key) ==
    Cardinality({j \in 1..Len(df) :
                    df[j].Likelihood = key[1] /\ df[j].Impact = key[2]})

groupby_size_all_buckets(df) ==
    LET keys == sorted_keys((1..4) \X (1..4))
    IN [i \in 1..Len(keys) |->
            [Likelihood |-> keys[i][1], Impact |-> keys[i][2],
             Count |-> group_size(df, keys[i])]]

\* df.groupby(["Likelihood", "Impact"]).size().reset_index(name="Count")
groupby_size(df) ==
    LET keys == sorted_keys({<<df[j].Likelihood, df[j].Impact>> : j \in 1..Len(df)})
    IN [i \in 1..Len(keys) |->
            [Likelihood |-> keys[i][1], Impact |-> keys[i][2],
             Count |-> group_size(df, keys[i])]]

----------------------------------------------------------------------------
(* The displayed high-risk table, app.py line 390 *)

\* RiskScore descending, equal scores in the order of df
RECURSIVE stable_sort_desc(_)
stable_sort_desc(df) ==
    IF df = << >> THEN << >>
    ELSE LET r == df[Len(df)]
             init == stable_sort_desc(SubSeq(df, 1, Len(df) - 1))
             ge(x) == x.RiskScore >= r.RiskScore
             lt(x) == x.RiskScore < r.RiskScore
         IN SelectSeq(init, ge) \o << r >> \o SelectSeq(init, lt)

tie_positions(s) == {p \in 1..(Len(s) - 1) : s[p].RiskScore = s[p + 1].RiskScore}

swap_at(s, p) ==
    [k \in 1..Len(s) |-> IF k = p THEN s[p + 1] ELSE IF k = p + 1 THEN s[p] ELSE s[k]]

\* df.sort_values("RiskScore", ascending=False) with the default kind
\* ("quicksort"): the frame comes out by RiskScore descending, and the order
\* of rows with equal RiskScore is whatever the sorting routine of the
\* installed numpy leaves.  The outcomes explored are the insertion-order one
\* and those with one pair of neighbouring equal rows exchanged, at one of the
\* first MaxTieSwap tie positions.
sort_values(df) ==
    LET s == stable_sort_desc(df)
        ties == tie_positions(s)
        explored == {p \in ties : Cardinality({q \in ties : q < p}) < MaxTieSwap}
    IN {s} \cup {swap_at(s, p) : p \in explored}

----------------------------------------------------------------------------
(* Coverage matrix, app.py lines 69-90 and 397-407 *)

tactics == <<
    "Reconnaissance", "Initial Access", "Execution", "Persistence",
    "Command & Control", "Impact" >>

techniques == <<
    "RF Scanning",
    "Phishing Ground Staff",
    "SATCOM Protocol Abuse",
    "Backdoor in Ground SW",
    "C2 via Compromised GS",
    "Orbit/Attitude Manipulation" >>

\* the nested loops of lines 83-89, from pair number k on
RECURSIVE mitre_rows(_, _)
mitre_rows(k, st) ==
    IF k > Len(tactics) * Len(techniques) THEN [rows |-> << >>, st |-> st]
    ELSE LET t == tactics[(k - 1) \div Len(techniques) + 1]
             tech == techniques[((k - 1) % Len(techniques)) + 1]
             c == choice(st, << "None", "Partial", "Good" >>)
             rest == mitre_rows(k + 1, c.st)
         IN [rows |-> << [Tactic |-> t, Technique |-> tech, Coverage |-> c.val] >>
                        \o rest.rows,
             st |-> rest.st]

\* st is the generator state at the call; returns the frame and the state left
generate_mitre_like_matrix(st) ==
    LET g == mitre_rows(1, st)
    IN [df |-> g.rows, st |-> g.st]

coverage_map_off_by_one(c) ==
    CASE c = "None" -> 1 [] c = "Partial" -> 2 [] c = "Good" -> 3

\* line 399
coverage_map(c) ==
    CASE c = "None" -> 0 [] c = "Partial" -> 1 [] c = "Good" -> 2

\* df_mitre["CoverageScore"] = df_mitre["Coverage"].map(coverage_map), line 400
with_coverage_score(rows) ==
    [k \in 1..Len(rows) |->
        [Tactic |-> rows[k].Tactic, Technique |-> rows[k].Technique,
         Coverage |-> rows[k].Coverage,
         CoverageScore |-> coverage_map(rows[k].Coverage)]]

\* aggfunc="mean", in 1/1000
mean(scores) == (1000 * SumSeq(scores)) \div Len(scores)

\* df_mitre.pivot_table(index="Technique", columns="Tactic",
\*                      values="CoverageScore", aggfunc="mean"):
\* a cell exists for the (Technique, Tactic) pairs that have records; the
\* index is the set of first components, the columns the set of second ones
pivot_table(df) ==
    [cell \in {<<df[j].Technique, df[j].Tactic>> : j \in 1..Len(df)} |->
        LET in_cell(r) == r.Technique = cell[1] /\ r.Tactic = cell[2]
            group == SelectSeq(df, in_cell)
        IN mean([j \in 1..Len(group) |-> group[j].CoverageScore])]

pivot_index(p) == {cell[1] : cell \in DOMAIN p}
pivot_columns(p) == {cell[2] : cell \in DOMAIN p}

----------------------------------------------------------------------------
(* The script run *)

\* the most recent MaxRuns entries of h with x appended
remember(h, x) ==
    LET all == Append(h, x)
    IN IF Len(all) > MaxRuns THEN SubSeq(all, Len(all) - MaxRuns + 1, Len(all))
                             ELSE all

\* One execution of app.py, top to bottom.  Tab 1: lines 154-156 and 241-258;
\* tab 2: lines 328-349, 357-361, 390 and 397-407.
RunScript ==
    /\ pc = "rerun"
    /\ LET a == R_EARTH + altitude_km * 1000
       IN /\ T' = kepler_period(a)
          /\ v' = orbital_velocity(a)
    /\ altitudes' = arange(sweep_min, sweep_max + sweep_step, sweep_step)
    /\ df_orbit_stats' = sweep_table(altitudes')
    /\ LET threat == generate_mock_sat_threat_data(rng)
           mitre == generate_mitre_like_matrix(threat.st)
       IN /\ df_threats' = threat.df
          /\ df_mitre' = with_coverage_score(mitre.df)
          /\ rng' = mitre.st
    /\ df_seg' = segment_filter(df_threats', segment)
    /\ high_risk' = high_risk_filter(df_seg', risk_threshold)
    /\ heatmap_data' = groupby_size(df_seg')
    /\ pivot' = pivot_table(df_mitre')
    /\ hist_threats' = remember(hist_threats, df_threats')
    /\ hist_mitre' = remember(hist_mitre, df_mitre')
    /\ pc' = "idle"
    /\ UNCHANGED <<gen, widgets>>
    /\ shown' \in sort_values(high_risk')

\* A rerun starts the script in a fresh namespace: the previous run's locals
\* are gone, the process-wide generator state is not.
StartRerun ==
    /\ pc = "idle"
    /\ pc' = "rerun"
    /\ T' = 0
    /\ v' = 0
    /\ altitudes' = << >>
    /\ df_orbit_stats' = << >>
    /\ df_threats' = << >>
    /\ df_seg' = << >>
    /\ high_risk' = << >>
    /\ heatmap_data' = << >>
    /\ shown' = << >>
    /\ df_mitre' = << >>
    /\ pivot' = << >>
    /\ UNCHANGED <<rng, gen, hist_threats, hist_mitre>>

\* the user asks for a rerun without touching a widget
Rerun ==
    /\ StartRerun
    /\ UNCHANGED widgets

\* st.selectbox, lines 315-318
ChangeSegment(s) ==
    /\ s # segment
    /\ StartRerun
    /\ segment' = s
    /\ UNCHANGED <<altitude_km, sweep_min, sweep_max, sweep_step, risk_threshold>>

\* st.slider, lines 320-325
ChangeThreshold(t) ==
    /\ t # risk_threshold
    /\ StartRerun
    /\ risk_threshold' = t
    /\ UNCHANGED <<altitude_km, sweep_min, sweep_max, sweep_step, segment>>

\* st.slider, line 241; the sweep stays one the sliders allow (line 242)
ChangeSweepMin(x) ==
    /\ x # sweep_min
    /\ x + 100 <= sweep_max
    /\ StartRerun
    /\ sweep_min' = x
    /\ UNCHANGED <<altitude_km, sweep_max, sweep_step, segment, risk_threshold>>

\* st.slider, line 242
ChangeSweepMax(x) ==
    /\ x # sweep_max
    /\ x >= sweep_min + 100
    /\ StartRerun
    /\ sweep_max' = x
    /\ UNCHANGED <<altitude_km, sweep_min, sweep_step, segment, risk_threshold>>

\* st.slider, line 243
ChangeSweepStep(x) ==
    /\ x # sweep_step
    /\ StartRerun
    /\ sweep_step' = x
    /\ UNCHANGED <<altitude_km, sweep_min, sweep_max, segment, risk_threshold>>

Thresholds == 1..16

\* slider positions explored by the sweep specification
SweepMinChoices == {200 + 100 * k : k \in 0..MaxSweepIdx}
SweepMaxChoices == {sweep_min + 100 + 100 * k : k \in 0..MaxSweepIdx} \cup {36000}
SweepStepChoices == {100 + 100 * k : k \in 0..MaxSweepIdx} \cup {5000}

\* altitudes given to the orbital functions by the orbit specification
AltitudeChoices == {50 * k : k \in 0..MaxAltIdx}

----------------------------------------------------------------------------
(* Specifications *)

\* The process has started and the first script run is pending.  G: the
\* generators considered, E: the generator states the process may start in,
\* A: the altitudes considered.
InitWith(G, E, A) ==
    /\ pc = "rerun"
    /\ gen \in G
    /\ rng \in E
    /\ altitude_km \in A
    /\ sweep_min = 300
    /\ sweep_max = 2000
    /\ sweep_step = 500
    /\ segment = "All"
    /\ risk_threshold = 9
    /\ T = 0
    /\ v = 0
    /\ altitudes = << >>
    /\ df_orbit_stats = << >>
    /\ df_threats = << >>
    /\ df_seg = << >>
    /\ high_risk = << >>
    /\ heatmap_data = << >>
    /\ shown = << >>
    /\ df_mitre = << >>
    /\ pivot = << >>
    /\ hist_threats = << >>
    /\ hist_mitre = << >>

Generators == [mul : Multipliers, inc : Increments]

\* The SOC console: any generator, any start state of it, the tab 2 widgets
\* operated by the user.
Init == InitWith(Generators, 0..(RngMod - 1), {700})

Next ==
    \/ RunScript
    \/ Rerun
    \/ \E s \in Segments : ChangeSegment(s)
    \/ \E t \in Thresholds : ChangeThreshold(t)

Spec == Init /\ [][Next]_vars

\* The orbital functions applied to every altitude of the grid.
InitOrbit == InitWith({[mul |-> 5, inc |-> 3]}, {0}, AltitudeChoices)

NextOrbit == RunScript

SpecOrbit == InitOrbit /\ [][NextOrbit]_vars

\* The altitude sweep: the three sweep sliders operated by the user.
InitSweep == InitWith({[mul |-> 5, inc |-> 3]}, {0}, {700})

NextSweep ==
    \/ RunScript
    \/ \E x \in SweepMinChoices : ChangeSweepMin(x)
    \/ \E x \in SweepMaxChoices : ChangeSweepMax(x)
    \/ \E x \in SweepStepChoices : ChangeSweepStep(x)

SpecSweep == InitSweep /\ [][NextSweep]_vars

----------------------------------------------------------------------------
(* Properties *)

Completed == pc = "idle"

ThreatNames == Range(threats)
CIANames == Range(cia_dim)

records_of(df, t, d) == {k \in 1..Len(df) : df[k].Threat = t /\ df[k].CIA = d}

\* C1: after every run, whatever the generator drew, the threat table has
\* exactly 30 records, exactly one per (Threat, CIA) pair of the 10 threat
\* names and 3 CIA dimensions, and every record has Likelihood in 1..4, Impact
\* in 1..4 and RiskScore = Likelihood * Impact, hence RiskScore in 1..16.
C1_ThreatTable ==
    Completed =>
        /\ Len(df_threats) = 30
        /\ Cardinality(ThreatNames) = 10
        /\ Cardinality(CIANames) = 3
        /\ \A t \in ThreatNames : \A d \in CIANames :
                Cardinality(records_of(df_threats, t, d)) = 1
        /\ \A k \in 1..Len(df_threats) :
                /\ df_threats[k].Threat \in ThreatNames
                /\ df_threats[k].CIA \in CIANames
                /\ df_threats[k].Likelihood \in 1..4
                /\ df_threats[k].Impact \in 1..4
                /\ df_threats[k].RiskScore
                       = df_threats[k].Likelihood * df_threats[k].Impact
                /\ df_threats[k].RiskScore \in 1..16

\* a completed run whose table reaches both ends of the RiskScore range
C1_Witness ==
    /\ Completed
    /\ \E k \in 1..Len(df_threats) : df_threats[k].RiskScore = 16
    /\ \E k \in 1..Len(df_threats) : df_threats[k].RiskScore = 1

\* C2: generate_mock_sat_threat_data is reproducible: all remembered runs
\* returned the identical 30-record table, whatever state the shared generator
\* was in before each call (the state the process started in before the first
\* call, the state the coverage draws left behind before the later ones).
C2_Reproducible ==
    \A i \in 1..Len(hist_threats) : \A j \in 1..Len(hist_threats) :
        hist_threats[i] = hist_threats[j]

\* two runs have completed, from different generator states
C2_Witness ==
    /\ Completed
    /\ Len(hist_threats) >= 2
    /\ Len(hist_threats[1]) = 30
    /\ rng # seed(42)

\* the segments' name sets as the claim gives them
SpaceThreats == {"Sat Bus Exploit", "Command Injection", "Data Exfiltration"}
GroundThreats == {"Ground Station Intrusion", "Ransomware in Ground IT", "Insider Threat"}
LinkThreats == {"GNSS Spoofing", "Uplink Jamming", "Downlink Jamming"}

SegmentThreats(seg) ==
    CASE seg = "Space Segment" -> SpaceThreats
      [] seg = "Ground Segment" -> GroundThreats
      [] seg = "Link Segment" -> LinkThreats
      [] OTHER -> ThreatNames

NamedSegments == Segments \ {"All"}

\* the rows of df, in order, whose Threat is in names
rows_named(df, names) == LET named(r) == r.Threat \in names IN SelectSeq(df, named)

\* C3: "All" yields all 30 records; "Space Segment", "Ground Segment" and
\* "Link Segment" each yield exactly the 9 records (3 threat names x 3 CIA
\* dimensions) whose Threat is in the segment's fixed name set; the three name
\* sets are pairwise disjoint and do not cover the 10 names, so that "Supply
\* Chain Malware" appears only under "All".
C3_SegmentFilter ==
    Completed =>
        /\ segment = "All" => (df_seg = df_threats /\ Len(df_seg) = 30)
        /\ segment \in NamedSegments =>
                /\ df_seg = rows_named(df_threats, SegmentThreats(segment))
                /\ Len(df_seg) = 9
                /\ \A t \in SegmentThreats(segment) : \A d \in CIANames :
                        Cardinality(records_of(df_seg, t, d)) = 1
        /\ \A s1 \in NamedSegments : \A s2 \in NamedSegments \ {s1} :
                isin_list(s1) \cap isin_list(s2) = {}
        /\ UNION {isin_list(s1) : s1 \in NamedSegments} # ThreatNames
        /\ (\E k \in 1..Len(df_seg) : df_seg[k].Threat = "Supply Chain Malware")
                <=> segment = "All"

\* a run with the space segment selected has filtered the table
C3_Witness ==
    /\ Completed
    /\ segment = "Space Segment"
    /\ Len(df_seg) = 9
    /\ Len(df_threats) = 30

\* C4: for every segment and every threshold in 1..16 the high-risk table
\* holds exactly the records of the segment-filtered table with RiskScore >=
\* threshold, each once; with threshold 16 it holds
\* only records with Likelihood = 4 and Impact = 4; it may be empty.
C4_HighRisk ==
    Completed =>
        /\ risk_threshold \in 1..16
        /\ \A k \in 1..Len(df_seg) :
                (df_seg[k] \in Range(high_risk))
                    <=> df_seg[k].RiskScore >= risk_threshold
        /\ Range(high_risk) \subseteq Range(df_seg)
        /\ Cardinality(Range(high_risk)) = Len(high_risk)
        /\ risk_threshold = 16 =>
                \A k \in 1..Len(high_risk) :
                    high_risk[k].Likelihood = 4 /\ high_risk[k].Impact = 4

\* threshold 16 on one segment keeps some records and drops others
C4_Witness ==
    /\ Completed
    /\ risk_threshold = 16
    /\ segment = "Ground Segment"
    /\ high_risk # << >>
    /\ Len(high_risk) < Len(df_seg)

\* position of a record in the generated threat table
insertion_index(r) == CHOOSE k \in 1..Len(df_threats) : df_threats[k] = r

\* C5: the displayed high-risk table is ordered by RiskScore descending, and
\* records with equal RiskScore keep the insertion order of the generated
\* threat table.
C5_StableDescending ==
    Completed =>
        /\ Range(shown) = Range(high_risk) /\ Len(shown) = Len(high_risk)
        /\ \A i \in 1..Len(shown) : \A j \in 1..Len(shown) :
                i < j =>
                    /\ shown[i].RiskScore >= shown[j].RiskScore
                    /\ shown[i].RiskScore = shown[j].RiskScore
                           => insertion_index(shown[i]) < insertion_index(shown[j])

heat_rows(l, i) ==
    {k \in 1..Len(heatmap_data) :
        heatmap_data[k].Likelihood = l /\ heatmap_data[k].Impact = i}

seg_count(l, i) ==
    Cardinality({k \in 1..Len(df_seg) :
                    df_seg[k].Likelihood = l /\ df_seg[k].Impact = i})

\* C9: the heatmap table has one (Likelihood, Impact, Count) row per pair that
\* occurs in the segment-filtered table and no row for a pair that does not;
\* every Count is >= 1 and is the number of records with that pair, and the
\* Counts add up to the number of records of the filtered table.
C9_Heatmap ==
    Completed =>
        /\ \A l \in 1..4 : \A i \in 1..4 :
                IF seg_count(l, i) = 0
                THEN heat_rows(l, i) = {}
                ELSE /\ Cardinality(heat_rows(l, i)) = 1
                     /\ \A k \in heat_rows(l, i) :
                            heatmap_data[k].Count = seg_count(l, i)
        /\ \A k \in 1..Len(heatmap_data) :
                /\ heatmap_data[k].Count >= 1
                /\ heatmap_data[k].Likelihood \in 1..4
                /\ heatmap_data[k].Impact \in 1..4
        /\ SumSeq([k \in 1..Len(heatmap_data) |-> heatmap_data[k].Count]) = Len(df_seg)

\* a segment's table with a pair that occurs more than once and pairs that do
\* not occur
C9_Witness ==
    /\ Completed
    /\ segment = "Link Segment"
    /\ Len(heatmap_data) < 9
    /\ \E k \in 1..Len(heatmap_data) : heatmap_data[k].Count >= 2
    /\ \E l \in 1..4 : \E i \in 1..4 : seg_count(l, i) = 0

TechniqueNames == Range(techniques)
TacticNames == Range(tactics)

\* the score the claim gives each coverage level, in 1/1000
CoverageValue(c) ==
    CASE c = "None" -> 0 [] c = "Partial" -> 1000 [] c = "Good" -> 2000

mitre_records(tech, tac) ==
    {k \in 1..Len(df_mitre) : df_mitre[k].Technique = tech /\ df_mitre[k].Tactic = tac}

\* C6: whatever the coverage draws, the pivoted matrix has exactly 6 rows
\* (techniques) and 6 columns (tactics), every (Technique, Tactic) cell is
\* populated, and every cell is 0, 1 or 2: the mapped score (None -> 0,
\* Partial -> 1, Good -> 2) of the single record of that pair.
C6_CoverageMatrix ==
    Completed =>
        /\ pivot_index(pivot) = TechniqueNames
        /\ pivot_columns(pivot) = TacticNames
        /\ Cardinality(pivot_index(pivot)) = 6
        /\ Cardinality(pivot_columns(pivot)) = 6
        /\ DOMAIN pivot = TechniqueNames \X TacticNames
        /\ \A cell \in DOMAIN pivot :
                /\ pivot[cell] \in {0, 1000, 2000}
                /\ Cardinality(mitre_records(cell[1], cell[2])) = 1
                /\ \A k \in mitre_records(cell[1], cell[2]) :
                        pivot[cell] = CoverageValue(df_mitre[k].Coverage)

\* a completed run whose matrix holds all three coverage levels
C6_Witness ==
    /\ Completed
    /\ Len(df_mitre) = 36
    /\ \A x \in {0, 1000, 2000} : \E cell \in DOMAIN pivot : pivot[cell] = x

\* C7 as amended: generate_mitre_like_matrix does not seed the generator
\* itself, but as the program invokes it (once per script run, right after
\* generate_mock_sat_threat_data has reseeded the shared generator with 42 and
\* made its draws) every invocation starts from the same generator state: all
\* remembered runs produced the identical coverage table.
C7_SameMatrixEveryRun ==
    \A i \in 1..Len(hist_mitre) : \A j \in 1..Len(hist_mitre) :
        hist_mitre[i] = hist_mitre[j]

\* two runs have completed and the matrix is not a constant one
C7_Witness ==
    /\ Completed
    /\ Len(hist_mitre) >= 2
    /\ Len(hist_mitre[1]) = 36
    /\ \E k \in 1..36 : hist_mitre[2][k].Coverage # hist_mitre[2][1].Coverage

\* C7 as stated: successive runs yield different matrices: once two runs have
\* completed, some (Tactic, Technique) pair has different coverage levels in
\* the two.
C7_RunsDiffer ==
    (Completed /\ Len(hist_mitre) >= 2) =>
        \E k \in 1..Len(hist_mitre[1]) :
            hist_mitre[1][k].Coverage # hist_mitre[2][k].Coverage

C10_SweepWithinRange ==
    (Completed /\ sweep_max >= sweep_min + 100 /\ sweep_step >= 100) =>
        /\ altitudes # << >>
        /\ altitudes[1] = sweep_min
        /\ \A k \in 1..(Len(altitudes) - 1) : altitudes[k + 1] - altitudes[k] = sweep_step
        /\ \A k \in 1..Len(altitudes) : altitudes[k] <= sweep_max
        /\ Len(df_orbit_stats) = Len(altitudes)
        /\ \A k \in 1..Len(altitudes) : df_orbit_stats[k].Altitude_km = altitudes[k]

====
